---- MODULE Spec2Model ----
(***************************************************************************)
(* BodyWise guided capture: the CaptureWorkflow component                  *)
(* (src/src/components/capture/CaptureWorkflow.tsx, the revision with the  *)
(* client-side pose detector, lines 371-1033) as a state machine.          *)
(*                                                                         *)
(* One step of the model is one task of the browser's event loop: a timer  *)
(* callback, a promise continuation or a click, followed by the render it  *)
(* causes and the effects that render runs (React 18 batches the state     *)
(* updates of one task; passive effects are flushed before the next        *)
(* event is handled).                                                      *)
(***************************************************************************)
EXTENDS Integers, Sequences, FiniteSets, TLC

\* POSE_TYPES.length
NumPoses == 4
\* distinct still frames the video source can deliver (bound)
MaxFrame == 2

Poses == 0 .. (NumPoses - 1)
Frames == 1 .. MaxFrame

\* the catalogue of poses: id and name of each entry, by array index
POSE_TYPES ==
    [p \in Poses |->
        [id |-> << "front_t_pose", "side_left_a_pose", "side_right_a_pose",
                   "back_t_pose" >>[p + 1],
         name |-> << "T-Pose (Front View)", "A-Pose (Left Side View)",
                     "A-Pose (Right Side View)", "T-Pose (Back View)" >>[p + 1]]]

\* the fields of an entry of initialPhotosState besides id and name: dataUri 0
\* stands for null
NoPhoto == [dataUri |-> 0, isCorrect |-> "null", feedback |-> "null"]

\* mutant: the record is marked correct but the image is not stored
CapturedPhoto_NoImage(frame) ==
    [dataUri |-> 0, isCorrect |-> "true", feedback |-> "Pose captured successfully."]

\* the record the flash timeout writes for a captured frame
CapturedPhoto(frame) ==
    [dataUri |-> frame, isCorrect |-> "true", feedback |-> "Pose captured successfully."]

\* POSE_TYPES.map(pt => ({id: pt.id, name: pt.name, dataUri: null, ...})): an
\* array is a function of its indices 0 .. length - 1
initialPhotosState == [p \in Poses |-> POSE_TYPES[p] @@ NoPhoto]

\* {...p, dataUri, isCorrect, feedback}: the fields given replace those of p
SpreadOver(p, fields) == fields @@ p

\* prevPhotos.map(p => p.id === id ? update(p) : p), where updated[i] is what
\* update gives for ps[i]
MapPhotoById(ps, id, updated) ==
    [i \in DOMAIN ps |-> IF ps[i].id = id THEN updated[i] ELSE ps[i]]

\* JSON.stringify of one photo: every field is a string, a boolean or null
StringifyPhoto(r) ==
    [id |-> << "string", r.id >>,
     name |-> << "string", r.name >>,
     dataUri |-> IF r.dataUri = 0 THEN << "null" >> ELSE << "string", r.dataUri >>,
     isCorrect |-> IF r.isCorrect = "null" THEN << "null" >>
                   ELSE << "boolean", r.isCorrect = "true" >>,
     feedback |-> IF r.feedback = "null" THEN << "null" >>
                  ELSE << "string", r.feedback >>]

\* JSON.parse of one photo
ParsePhoto(o) ==
    [id |-> o.id[2],
     name |-> o.name[2],
     dataUri |-> IF o.dataUri[1] = "null" THEN 0 ELSE o.dataUri[2],
     isCorrect |-> IF o.isCorrect[1] = "null" THEN "null"
                   ELSE IF o.isCorrect[2] THEN "true" ELSE "false",
     feedback |-> IF o.feedback[1] = "null" THEN "null" ELSE o.feedback[2]]

\* JSON.stringify(photos): the text of the array, element by element in order
JSONstringify(ps) ==
    [i \in 1 .. Cardinality(DOMAIN ps) |-> StringifyPhoto(ps[i - 1])]

\* JSON.parse(item)
JSONparse(item) == [p \in 0 .. (Len(item) - 1) |-> ParsePhoto(item[p + 1])]

\* localStorage.getItem gave nothing
NoItem == << >>

\* useState(() => item ? JSON.parse(item) : initialValue)
ReadItem(item) == IF item = NoItem THEN initialPhotosState ELSE JSONparse(item)

\* what localStorage 'capturedPhotos' can hold when the component mounts:
\* nothing (the initial value), or what an earlier session left behind, which
\* is a run of confirmed poses from the first one on
StoredPhotoSets ==
    { [p \in Poses |-> IF p < k THEN SpreadOver(initialPhotosState[p], CapturedPhoto(1))
                                ELSE initialPhotosState[p]] : k \in 0 .. NumPoses }

\* the items of localStorage 'capturedPhotos' that hold them
StoredItems == { JSONstringify(ps) : ps \in StoredPhotoSets } \cup { NoItem }

CapturePhases ==
    { "IDLE", "INITIALIZING_CAMERA_TF", "TF_MODEL_LOADING", "READY_TO_START",
      "INITIALIZING_POSE", "GUIDING", "ANALYZING", "CAPTURING_PHOTO", "PHOTO_FLASH",
      "POSE_CONFIRMED", "ALL_POSES_CAPTURED", "CAMERA_ERROR", "PROFILE_INCOMPLETE",
      "MODEL_LOAD_ERROR" }

VARIABLES
    profile,                    \* TRUE: the stored profile has height, weight and age
    photos,                     \* useLocalStorage('capturedPhotos'): pose -> record
    capturedPhotosItem,         \* the item 'capturedPhotos' of localStorage
    currentPoseIndex,
    capturePhase,
    poseCorrectness,            \* "NEUTRAL" | "CORRECT" | "ADJUSTMENT_NEEDED"
    hasCameraPermission,        \* "null" | "true" | "false"
    aiFeedbackText,
    backendDetectedLandmarks,   \* "null" | "empty" | "some"
    isBackendProcessing,
    clientDetector,             \* TRUE: a detector is loaded (non-null)
    isClientDetectorLoading,
    guidanceIntervalRef,        \* TRUE: the sampling interval is set and live
    phaseTransitionTimeoutRef,  \* the timeout the ref names, or NoTimer
    flashTimeoutRef,
    timers,                     \* pending setTimeout callbacks with their closures
    inflight,                   \* aiPoseGuidance calls not yet settled, with closures
    setupPending,               \* setupCameraAndTF is awaiting tf / getUserMedia
    modelLoadPending,           \* loadModel is awaiting createDetector
    mounted,                    \* FALSE after the component unmounted
    mediaStream,                \* the stream of getUserMedia: "none" | "live" | "stopped"
    videoSrcObject,             \* TRUE: the stream is the srcObject of the video element
    utterance,                  \* what speechSynthesis was last given, "none" after cancel()
    lastEvent                   \* history: the task that produced this state

reactState ==
    << photos, capturedPhotosItem, currentPoseIndex, capturePhase, poseCorrectness, hasCameraPermission,
       aiFeedbackText, backendDetectedLandmarks, isBackendProcessing, clientDetector,
       isClientDetectorLoading >>

refs == << guidanceIntervalRef, phaseTransitionTimeoutRef, flashTimeoutRef >>

pending == << timers, inflight, setupPending, modelLoadPending >>

media == << mediaStream, videoSrcObject, utterance >>

vars == << profile, reactState, refs, pending, mounted, media, lastEvent >>

\* a ref that names no timeout
NoTimer ==
    [kind |-> "none", pose |-> 0, frame |-> 0, prevPhotos |-> initialPhotosState,
     isCorrectPose |-> FALSE]

\* the preparation timeout of the INITIALIZING_POSE effect (its callback closes
\* over nothing but setCapturePhase)
PrepTimer ==
    [kind |-> "prep", pose |-> 0, frame |-> 0, prevPhotos |-> initialPhotosState,
     isCorrectPose |-> FALSE]

\* a timeout of the capture chain, with the closure of the runAiGuidance call
\* that scheduled it: currentPoseInfo, photoDataUri, setPhotos and the result
ChainTimer(kind, call, isCorrectPose) ==
    [kind |-> kind, pose |-> call.pose, frame |-> call.frame,
     prevPhotos |-> call.prevPhotos, isCorrectPose |-> isCorrectPose]

\* s without its i-th element
RemoveAt(s, i) == SubSeq(s, 1, i - 1) \o SubSeq(s, i + 1, Len(s))

\* clearTimeout(ref): one pending timeout equal to the one the ref names goes away
ClearTimeout(s, ref) ==
    IF \E i \in 1 .. Len(s) : s[i] = ref
    THEN RemoveAt(s, CHOOSE i \in 1 .. Len(s) : s[i] = ref)
    ELSE s

\* currentPoseInfo = POSE_TYPES[currentPoseIndex] is defined
HasPoseInfo(idx) == idx \in Poses

\* photos.filter(p => p.isCorrect).length
capturedCount == Cardinality({ p \in Poses : photos[p].isCorrect = "true" })


----------------------------------------------------------------------------
(* What is rendered, and which buttons can be clicked *)

\* the early returns of the render: which screen the component shows
Screen ==
    IF capturePhase \in {"IDLE", "INITIALIZING_CAMERA_TF"} /\ hasCameraPermission = "null"
    THEN "loader"
    ELSE IF capturePhase = "TF_MODEL_LOADING" THEN "loader"
    ELSE IF capturePhase = "PROFILE_INCOMPLETE" THEN "profile"
    ELSE IF \/ capturePhase \in {"CAMERA_ERROR", "MODEL_LOAD_ERROR"}
            \/ /\ capturePhase # "IDLE"
               /\ hasCameraPermission # "true"
               /\ ~isClientDetectorLoading
               /\ capturePhase \notin {"INITIALIZING_CAMERA_TF", "TF_MODEL_LOADING"}
    THEN "error"
    ELSE "main"

\* videoRef.current and canvasRef.current exist only while the main screen is rendered
VideoRendered == Screen = "main"

\* the disabled attribute of the Start / Pause / Resume button
ActionButtonDisabled ==
    \/ isBackendProcessing
    \/ capturePhase \in {"CAMERA_ERROR", "PROFILE_INCOMPLETE", "CAPTURING_PHOTO",
                         "PHOTO_FLASH", "POSE_CONFIRMED", "TF_MODEL_LOADING",
                         "INITIALIZING_CAMERA_TF"}
    \/ isClientDetectorLoading

\* the button calling handleStartCapture is on screen and can be clicked
ActionButtonEnabled ==
    /\ Screen = "main"
    /\ capturePhase # "ALL_POSES_CAPTURED"
    /\ (capturePhase = "MODEL_LOAD_ERROR" \/ ~ActionButtonDisabled)

\* mutant: the Retry Pose button stays enabled while an analysis is in flight
RetryPoseButtonDisabled_IgnoresProcessing ==
    \/ capturePhase \in {"CAPTURING_PHOTO", "PHOTO_FLASH", "POSE_CONFIRMED"}
    \/ isClientDetectorLoading

\* the disabled attribute of the Retry Pose button
RetryPoseButtonDisabled ==
    \/ isBackendProcessing
    \/ capturePhase \in {"CAPTURING_PHOTO", "PHOTO_FLASH", "POSE_CONFIRMED"}
    \/ isClientDetectorLoading

\* the condition under which the Retry Pose button is rendered
RetryPoseButtonShown ==
    /\ Screen = "main"
    /\ \/ capturePhase \in {"GUIDING", "ANALYZING", "INITIALIZING_POSE"}
       \/ /\ capturePhase = "READY_TO_START"
          /\ HasPoseInfo(currentPoseIndex)
          /\ photos[currentPoseIndex].isCorrect # "true"
    /\ currentPoseIndex < NumPoses
    /\ capturedCount < NumPoses
    /\ (HasPoseInfo(currentPoseIndex) => photos[currentPoseIndex].isCorrect # "true")
    /\ clientDetector

\* mutant: the Retry Pose button is there and enabled whenever the main screen is
RetryPoseButtonEnabled_MainScreen == Screen = "main" /\ clientDetector

RetryPoseButtonEnabled == RetryPoseButtonShown /\ ~RetryPoseButtonDisabled

\* the Retry Setup button of the error card
RetrySetupButtonEnabled == Screen = "error"

----------------------------------------------------------------------------
(* Effects *)

\* mutant: the interval is kept while the analysis call is awaited
GuidanceIntervalEffect_KeepsWhileAnalyzing(ph, perm, proc, det) ==
    ph \in {"GUIDING", "ANALYZING"} /\ perm = "true" /\ det

\* mutant: the effect keeps the interval whatever the phase
GuidanceIntervalEffect_IgnoresPhase(ph, perm, proc, det) ==
    perm = "true" /\ ~proc /\ det

\* the guidance interval effect: the interval is live after it ran
GuidanceIntervalEffect(ph, perm, proc, det) ==
    ph = "GUIDING" /\ perm = "true" /\ ~proc /\ det

\* mutant: the effect never runs
InitPoseEffectRuns_Never(ph, idx) == FALSE

\* mutant: the effect has no dependency list and runs after every render
InitPoseEffectRuns_EveryRender(ph, idx) ==
    ph = "INITIALIZING_POSE" /\ HasPoseInfo(idx)

\* the INITIALIZING_POSE effect runs when capturePhase or currentPoseInfo changed
InitPoseEffectRuns(ph, idx) ==
    /\ ph = "INITIALIZING_POSE"
    /\ HasPoseInfo(idx)
    /\ (ph # capturePhase \/ idx # currentPoseIndex)

\* the model loading effect, run when one of its dependencies changed
LoadModelEffectRuns(perm, det, loading) ==
    perm = "true" /\ ~det /\ ~loading

\* the clearTimeout calls of the unmount / detector-change cleanup
CleanupTimers(tms) ==
    ClearTimeout(ClearTimeout(tms, phaseTransitionTimeoutRef), flashTimeoutRef)

\* the render after a task that changed the capture loop's state, and the
\* effects of that render
Render(ph, idx, ps, corr, fb, lm, proc, tms, ptRef) ==
    LET run == InitPoseEffectRuns(ph, idx) IN
    /\ capturePhase' = ph
    /\ currentPoseIndex' = idx
    /\ photos' = ps
    /\ capturedPhotosItem' = JSONstringify(ps)
    /\ poseCorrectness' = IF run THEN "NEUTRAL" ELSE corr
    /\ aiFeedbackText' = IF run THEN "next" ELSE fb
    /\ backendDetectedLandmarks' = IF run THEN "null" ELSE lm
    /\ isBackendProcessing' = proc
    /\ timers' = IF run THEN Append(tms, PrepTimer) ELSE tms
    /\ phaseTransitionTimeoutRef' = IF run THEN PrepTimer ELSE ptRef
    /\ guidanceIntervalRef' =
           GuidanceIntervalEffect(ph, hasCameraPermission, proc, clientDetector)
    /\ UNCHANGED << hasCameraPermission, clientDetector, isClientDetectorLoading >>

\* a task that runs after the unmount: its state setters do nothing, no render
\* follows, but the timeouts it sets are set
NoRender(tms, ptRef) ==
    /\ UNCHANGED << reactState, guidanceIntervalRef >>
    /\ timers' = tms
    /\ phaseTransitionTimeoutRef' = ptRef

\* speak(text) in a task that ends with phase ph and pose idx: when the
\* INITIALIZING_POSE effect runs after the render, its speak replaces the text
Utter(text, ph, idx) ==
    /\ utterance' = IF mounted /\ InitPoseEffectRuns(ph, idx) THEN "Get ready" ELSE text
    /\ UNCHANGED << mediaStream, videoSrcObject >>

\* the cleanup of the effect that depends on clientDetector, run because the
\* detector changed while the component stays mounted: the tracks of the
\* video's srcObject are stopped, speech is cancelled
DetectorCleanup(ran) ==
    /\ mediaStream' = IF ran /\ videoSrcObject THEN "stopped" ELSE mediaStream
    /\ utterance' = IF ran THEN "none" ELSE utterance
    /\ UNCHANGED videoSrcObject

----------------------------------------------------------------------------
(* The state after the first render *)

Init ==
    /\ profile \in BOOLEAN
    /\ \E item \in StoredItems :
           /\ photos = ReadItem(item)
           /\ capturedPhotosItem = JSONstringify(photos)
    /\ currentPoseIndex = 0
    /\ capturePhase = "IDLE"
    /\ poseCorrectness = "NEUTRAL"
    /\ hasCameraPermission = "null"
    /\ aiFeedbackText = "null"
    /\ backendDetectedLandmarks = "null"
    /\ isBackendProcessing = FALSE
    /\ clientDetector = FALSE
    /\ isClientDetectorLoading = FALSE
    /\ guidanceIntervalRef = FALSE
    /\ phaseTransitionTimeoutRef = NoTimer
    /\ flashTimeoutRef = NoTimer
    /\ timers = << >>
    /\ inflight = << >>
    /\ setupPending = FALSE
    /\ modelLoadPending = FALSE
    /\ mounted = TRUE
    /\ mediaStream = "none"
    /\ videoSrcObject = FALSE
    /\ utterance = "none"
    /\ lastEvent = "mount"

----------------------------------------------------------------------------
(* Setup: profile check, TensorFlow backend, camera, pose model *)

\* the synchronous part of setupCameraAndTF, which the setup effect calls
\* whenever capturePhase became IDLE
setupCameraAndTF ==
    /\ capturePhase' = IF profile THEN "INITIALIZING_CAMERA_TF" ELSE "PROFILE_INCOMPLETE"
    /\ setupPending' = profile

\* the setup effect after the first render
SetupEffect ==
    /\ mounted
    /\ capturePhase = "IDLE"
    /\ setupCameraAndTF
    /\ lastEvent' = "setup_started"
    /\ UNCHANGED << profile, photos, capturedPhotosItem, currentPoseIndex, poseCorrectness,
                    hasCameraPermission, aiFeedbackText, backendDetectedLandmarks,
                    isBackendProcessing, clientDetector, isClientDetectorLoading,
                    refs, timers, inflight, modelLoadPending, mounted, media >>

\* mutant: the restart leaves the camera permission as the failed setup set it
PermissionAfterRestart_Kept == hasCameraPermission

\* setHasCameraPermission(null) of the restart
PermissionAfterRestart == "null"

\* setCapturePhase('IDLE'), setHasCameraPermission(null), setClientDetector(null):
\* the Retry Setup button and the MODEL_LOAD_ERROR branch of handleStartCapture.
\* The setup effect then starts the setup again; the cleanup that depends on
\* clientDetector runs when a detector was loaded.
RestartSetup ==
    /\ setupCameraAndTF
    /\ hasCameraPermission' = PermissionAfterRestart
    /\ clientDetector' = FALSE
    /\ isClientDetectorLoading' = FALSE
    /\ guidanceIntervalRef' = FALSE
    /\ timers' = IF clientDetector THEN CleanupTimers(timers) ELSE timers
    /\ DetectorCleanup(clientDetector)
    /\ UNCHANGED << profile, photos, capturedPhotosItem, currentPoseIndex, poseCorrectness, aiFeedbackText,
                    backendDetectedLandmarks, isBackendProcessing,
                    phaseTransitionTimeoutRef, flashTimeoutRef, inflight,
                    modelLoadPending, mounted >>

RetrySetup ==
    /\ mounted
    /\ RetrySetupButtonEnabled
    /\ RestartSetup
    /\ lastEvent' = "retry_setup"

\* tf.setBackend / tf.ready / getUserMedia settle: ok, or one of them failed
SetupResolve(ok) ==
    /\ setupPending
    /\ setupPending' = FALSE
    /\ IF ~mounted
       THEN /\ lastEvent' = "setup_settled_unmounted"
            /\ UNCHANGED << reactState, refs, timers, modelLoadPending >>
       ELSE IF ok
       THEN LET load == LoadModelEffectRuns("true", clientDetector, isClientDetectorLoading) IN
            /\ hasCameraPermission' = "true"
            /\ capturePhase' = IF load THEN "TF_MODEL_LOADING" ELSE capturePhase
            /\ isClientDetectorLoading' = (load \/ isClientDetectorLoading)
            /\ modelLoadPending' = (load \/ modelLoadPending)
            /\ lastEvent' = "camera_granted"
            /\ UNCHANGED << photos, capturedPhotosItem, currentPoseIndex, poseCorrectness, aiFeedbackText,
                            backendDetectedLandmarks, isBackendProcessing,
                            clientDetector, refs, timers >>
       ELSE /\ hasCameraPermission' = "false"
            /\ capturePhase' = "CAMERA_ERROR"
            /\ lastEvent' = "camera_failed"
            /\ UNCHANGED << photos, capturedPhotosItem, currentPoseIndex, poseCorrectness, aiFeedbackText,
                            backendDetectedLandmarks, isBackendProcessing,
                            clientDetector, isClientDetectorLoading, refs, timers,
                            modelLoadPending >>
    /\ mediaStream' = IF ok THEN "live" ELSE mediaStream
    /\ videoSrcObject' = IF ok /\ mounted /\ VideoRendered THEN TRUE ELSE videoSrcObject
    /\ UNCHANGED << profile, inflight, mounted, utterance >>

\* createDetector settles. On failure the finally block clears
\* isClientDetectorLoading, which is a dependency of the loading effect: the
\* effect runs again and starts the next load.
LoadModelResolve(ok) ==
    /\ modelLoadPending
    /\ IF ~mounted
       THEN /\ modelLoadPending' = FALSE
            /\ lastEvent' = "model_settled_unmounted"
            /\ UNCHANGED << reactState, refs, timers >>
       ELSE IF ok
       THEN /\ clientDetector' = TRUE
            /\ capturePhase' = "READY_TO_START"
            /\ isClientDetectorLoading' = FALSE
            /\ modelLoadPending' = FALSE
            /\ timers' = CleanupTimers(timers)
            /\ guidanceIntervalRef' = FALSE
            /\ lastEvent' = "model_loaded"
            /\ UNCHANGED << photos, capturedPhotosItem, currentPoseIndex, poseCorrectness,
                            hasCameraPermission, aiFeedbackText,
                            backendDetectedLandmarks, isBackendProcessing,
                            phaseTransitionTimeoutRef, flashTimeoutRef >>
       ELSE LET load == LoadModelEffectRuns(hasCameraPermission, clientDetector, FALSE) IN
            /\ capturePhase' = IF load THEN "TF_MODEL_LOADING" ELSE "MODEL_LOAD_ERROR"
            /\ isClientDetectorLoading' = load
            /\ modelLoadPending' = load
            /\ lastEvent' = "model_load_failed"
            /\ UNCHANGED << photos, capturedPhotosItem, currentPoseIndex, poseCorrectness,
                            hasCameraPermission, aiFeedbackText,
                            backendDetectedLandmarks, isBackendProcessing,
                            clientDetector, refs, timers >>
    /\ DetectorCleanup(mounted /\ ok)
    /\ UNCHANGED << profile, inflight, setupPending, mounted >>

\* the component unmounts: the cleanup clears the interval and the two
\* timeouts the refs name and cancels speech. It stops the tracks of
\* videoRef.current.srcObject; the video element is unmounted and its ref
\* detached before the cleanup of a passive effect runs, so whether the ref is
\* still there is left open (refAttached)
Unmount ==
    /\ mounted
    /\ mounted' = FALSE
    /\ guidanceIntervalRef' = FALSE
    /\ timers' = CleanupTimers(timers)
    /\ \E refAttached \in BOOLEAN :
           mediaStream' = IF refAttached /\ VideoRendered /\ videoSrcObject
                          THEN "stopped" ELSE mediaStream
    /\ utterance' = "none"
    /\ UNCHANGED videoSrcObject
    /\ lastEvent' = "unmount"
    /\ UNCHANGED << profile, reactState, phaseTransitionTimeoutRef, flashTimeoutRef,
                    inflight, setupPending, modelLoadPending >>

----------------------------------------------------------------------------
(* aiPoseGuidanceFlow (src/src/ai/flows/ai-pose-guidance.ts): one call of the *)
(* server action, with its retry loop                                         *)

\* const maxRetries
maxRetries == 3
\* distinct messages the errors of prompt(input) can carry (bound)
MaxErrorId == 2

\* lastError before any failure, and thrown before the flow threw
NoError == [name |-> "none", status |-> 0, message |-> [text |-> "", detail |-> 0]]

\* what a rejected prompt(input) can throw: status 0 stands for no status
PromptErrors ==
    { [name |-> n, status |-> st, message |-> [text |-> "", detail |-> d]] :
        n \in {"GoogleGenerativeAIError", "Error"}, st \in {503, 500, 0},
        d \in 1 .. MaxErrorId }

\* output before the flow returned
NoOutput == [isCorrectPose |-> FALSE, detectedLandmarks |-> "undefined"]

\* the output null of a response without structured output
NullOutput == [isCorrectPose |-> FALSE, detectedLandmarks |-> "null output"]

\* what a fulfilled prompt(input) can give as output
PromptOutputs ==
    [isCorrectPose : BOOLEAN, detectedLandmarks : {"undefined", "empty", "some"}]
        \cup { NullOutput }

\* what the flow throws when its return value does not fit outputSchema
SchemaError ==
    [name |-> "GenkitError", status |-> 0,
     message |-> [text |-> "Schema validation failed", detail |-> 0]]

\* the flow when aiPoseGuidance is called: in its first prompt(input).
\* calls, delays, failures and raw are history: the prompt calls made, the
\* setTimeout delays waited for, the errors caught, the output as prompt gave it
NewFlow ==
    [status |-> "calling", retryCount |-> 0, lastError |-> NoError,
     output |-> NoOutput, thrown |-> NoError,
     calls |-> 1, delays |-> << >>, failures |-> << >>, raw |-> NoOutput]

\* mutant: every error is retried
IsTransient_AnyError(error) == TRUE

\* error.name === 'GoogleGenerativeAIError' && error.status === 503
IsTransient(error) == error.name = "GoogleGenerativeAIError" /\ error.status = 503

\* mutant: the delay grows by two seconds per attempt
BackoffMs_Linear(retryCount) == 2 * retryCount * 1000

\* mutant: the same delay before every attempt
BackoffMs_Fixed(retryCount) == 2000

\* (2 ** retryCount) * 1000, on the retryCount already incremented
BackoffMs(retryCount) == (2 ^ retryCount) * 1000

\* mutant: the loop has no bound
RetriesLeft_Always(retryCount) == TRUE

\* mutant: one attempt more
RetriesLeft_OneMore(retryCount) == retryCount <= maxRetries

\* the loop condition retryCount < maxRetries
RetriesLeft(retryCount) == retryCount < maxRetries

\* mutant: the output is returned as prompt gave it
NormaliseOutput_AsGiven(output) == output

\* if (output && output.detectedLandmarks === undefined) output.detectedLandmarks = []
NormaliseOutput(output) ==
    IF output.detectedLandmarks = "undefined"
    THEN [output EXCEPT !.detectedLandmarks = "empty"]
    ELSE output

\* mutant: after the last retry the last error caught is thrown as it is
ExhaustedError_LastError(lastError) == lastError

\* new Error(`Failed to get AI pose guidance after ${maxRetries} retries: ${lastError?.message || lastError}`)
ExhaustedError(lastError) ==
    [name |-> "Error", status |-> 0,
     message |-> [text |-> "Failed to get AI pose guidance after 3 retries: ",
                  detail |-> lastError.message.detail]]

\* prompt(input) fulfilled: the flow returns the output; a null output does
\* not fit the flow's outputSchema and the flow throws instead
FlowReturn(f, output) ==
    IF output = NullOutput
    THEN [f EXCEPT !.status = "thrown", !.thrown = SchemaError, !.raw = output]
    ELSE [f EXCEPT !.status = "returned", !.output = NormaliseOutput(output),
                   !.raw = output]

\* prompt(input) rejected: the catch block
FlowCatch(f, error) ==
    IF IsTransient(error)
    THEN [f EXCEPT !.lastError = error, !.failures = Append(@, error),
                   !.retryCount = @ + 1, !.status = "waiting",
                   !.delays = Append(@, BackoffMs(f.retryCount + 1))]
    ELSE [f EXCEPT !.lastError = error, !.failures = Append(@, error),
                   !.status = "thrown", !.thrown = error]

\* the backoff timeout fired: the loop condition is tested again
FlowAfterBackoff(f) ==
    IF RetriesLeft(f.retryCount)
    THEN [f EXCEPT !.status = "calling", !.calls = @ + 1]
    ELSE [f EXCEPT !.status = "thrown", !.thrown = ExhaustedError(f.lastError)]

\* what runAiGuidance sees of a settled flow
FlowSettled(f) == f.status \in {"returned", "thrown"}

\* mutant: a thrown error is handled like a result that asks for adjustment
FlowOutcome_ThrownAsIncorrect(f) ==
    IF f.status = "returned" /\ f.output.isCorrectPose THEN "correct" ELSE "incorrect"

\* mutant: the verdict of a result is not looked at
FlowOutcome_IgnoresVerdict(f) ==
    IF f.status = "thrown" THEN "error" ELSE "correct"

\* the branch runAiGuidance takes after its await: catch, or result.isCorrectPose
FlowOutcome(f) ==
    IF f.status = "thrown" THEN "error"
    ELSE IF f.output.isCorrectPose THEN "correct" ELSE "incorrect"

\* result.detectedLandmarks
FlowLandmarks(f) == IF f.status = "thrown" THEN "empty" ELSE f.output.detectedLandmarks

----------------------------------------------------------------------------
(* The capture loop *)

\* mutant: runAiGuidance does not look at isBackendProcessing and capturePhase
runAiGuidanceReturns_NoGuard ==
    \/ ~HasPoseInfo(currentPoseIndex)
    \/ ~VideoRendered

\* the first line of runAiGuidance: return without doing anything
runAiGuidanceReturns ==
    \/ ~HasPoseInfo(currentPoseIndex)
    \/ ~VideoRendered
    \/ isBackendProcessing
    \/ capturePhase # "GUIDING"

\* mutant: the flag set at the start of runAiGuidance is not taken back
ProcessingAfterNoContext_StaysSet == TRUE

\* setIsBackendProcessing(false) when the temporary canvas has no 2d context
ProcessingAfterNoContext == FALSE

\* mutant: setPhotos applies its updates to the photos of the first render
SetPhotosClosure_FirstRender == initialPhotosState

\* the storedValue that the setPhotos of the current render applies functional
\* updates to; runAiGuidance is made anew whenever photos changed
SetPhotosClosure == photos

\* runAiGuidance up to its await: frame is the still taken from the video,
\* hasCtx is FALSE when the temporary canvas gives no 2d context
runAiGuidance(frame, hasCtx) ==
    IF runAiGuidanceReturns
    THEN /\ lastEvent' = "tick_ignored"
         /\ UNCHANGED << reactState, refs, timers, inflight >>
    ELSE IF ~hasCtx
    THEN /\ Render("GUIDING", currentPoseIndex, photos, poseCorrectness,
                   "Verifying pose with AI...", backendDetectedLandmarks,
                   ProcessingAfterNoContext, timers, phaseTransitionTimeoutRef)
         /\ lastEvent' = "tick_no_frame"
         /\ UNCHANGED << flashTimeoutRef, inflight >>
    ELSE /\ Render("ANALYZING", currentPoseIndex, photos, poseCorrectness,
                   "Verifying pose with AI...", backendDetectedLandmarks, TRUE,
                   timers, phaseTransitionTimeoutRef)
         /\ inflight' = Append(inflight, [pose |-> currentPoseIndex, frame |-> frame,
                                          prevPhotos |-> SetPhotosClosure,
                                          flow |-> NewFlow])
         /\ lastEvent' = "tick"
         /\ UNCHANGED flashTimeoutRef

\* the sampling interval fires
GuidanceTick ==
    /\ mounted
    /\ guidanceIntervalRef
    /\ \E frame \in Frames, hasCtx \in BOOLEAN : runAiGuidance(frame, hasCtx)
    /\ UNCHANGED << profile, setupPending, modelLoadPending, mounted, media >>

\* mutant: every result is treated as a correct pose
CapturesOn_AnyResult(isCorrectPose) == TRUE

\* the branch of runAiGuidance taken on a result: TRUE schedules the capture
CapturesOn(isCorrectPose) == isCorrectPose

\* a step of the flow of the i-th pending call leaves the component alone
FlowStep(i, f, event) ==
    /\ inflight' = [inflight EXCEPT ![i].flow = f]
    /\ lastEvent' = event
    /\ UNCHANGED << profile, reactState, refs, timers, setupPending, modelLoadPending,
                    mounted, media >>

\* prompt(input) of the i-th pending call is fulfilled
PromptResolve(i, output) ==
    /\ inflight[i].flow.status = "calling"
    /\ FlowStep(i, FlowReturn(inflight[i].flow, output), "prompt_returned")

\* prompt(input) of the i-th pending call is rejected
PromptReject(i, error) ==
    /\ inflight[i].flow.status = "calling"
    /\ FlowStep(i, FlowCatch(inflight[i].flow, error), "prompt_failed")

\* the backoff timeout of the i-th pending call fires
BackoffElapsed(i) ==
    /\ inflight[i].flow.status = "waiting"
    /\ FlowStep(i, FlowAfterBackoff(inflight[i].flow), "backoff_elapsed")

\* aiPoseGuidance settles and runAiGuidance continues after its await.
\* outcome: "correct" | "incorrect" | "error"; lm: result.detectedLandmarks || []
AnalysisResolve(i, outcome, lm) ==
    LET call == inflight[i] IN
    /\ inflight' = RemoveAt(inflight, i)
    /\ IF outcome # "error" /\ CapturesOn(outcome = "correct")
       THEN /\ IF mounted
               THEN Render("CAPTURING_PHOTO", currentPoseIndex, photos, "CORRECT",
                           "result", lm, FALSE,
                           Append(timers, ChainTimer("capture", call, outcome = "correct")),
                           ChainTimer("capture", call, outcome = "correct"))
               ELSE NoRender(Append(timers, ChainTimer("capture", call, outcome = "correct")),
                             ChainTimer("capture", call, outcome = "correct"))
            /\ Utter("Perfect! Capturing", "CAPTURING_PHOTO", currentPoseIndex)
            /\ lastEvent' = "analysis_correct"
       ELSE IF outcome # "error"
       THEN /\ IF mounted
               THEN Render("GUIDING", currentPoseIndex, photos, "ADJUSTMENT_NEEDED",
                           "result", lm, FALSE, timers, phaseTransitionTimeoutRef)
               ELSE NoRender(timers, phaseTransitionTimeoutRef)
            /\ Utter("result", "GUIDING", currentPoseIndex)
            /\ lastEvent' = "analysis_incorrect"
       ELSE /\ IF mounted
               THEN Render("GUIDING", currentPoseIndex, photos, "NEUTRAL",
                           "AI analysis hiccup. Let's try again.", "null", FALSE,
                           timers, phaseTransitionTimeoutRef)
               ELSE NoRender(timers, phaseTransitionTimeoutRef)
            /\ Utter("AI analysis hiccup. Let's try again.", "GUIDING", currentPoseIndex)
            /\ lastEvent' = "analysis_failed"
    /\ UNCHANGED << profile, flashTimeoutRef, setupPending, modelLoadPending, mounted >>

\* the server action of the i-th pending call answers: the flow has returned
\* or thrown
AnalysisSettles(i) ==
    /\ FlowSettled(inflight[i].flow)
    /\ AnalysisResolve(i, FlowOutcome(inflight[i].flow), FlowLandmarks(inflight[i].flow))

\* the 500 ms timeout set on a correct result
CaptureTimeout(i) ==
    LET t == timers[i]
        rest == RemoveAt(timers, i)
        flash == [t EXCEPT !.kind = "flash"] IN
    /\ t.kind = "capture"
    /\ IF mounted
       THEN Render("PHOTO_FLASH", currentPoseIndex, photos, poseCorrectness,
                   aiFeedbackText, backendDetectedLandmarks, isBackendProcessing,
                   Append(rest, flash), phaseTransitionTimeoutRef)
       ELSE NoRender(Append(rest, flash), phaseTransitionTimeoutRef)
    /\ flashTimeoutRef' = flash
    /\ UNCHANGED media
    /\ lastEvent' = "capture_timeout"
    /\ UNCHANGED << profile, inflight, setupPending, modelLoadPending, mounted >>

\* mutant: the map has no test of the id, every record is written
WritePhoto_EveryRecord(ps, pose, frame) ==
    [i \in DOMAIN ps |-> SpreadOver(ps[i], CapturedPhoto(frame))]

\* prevPhotos.map(p => p.id === currentPoseInfo.id ? {...p, dataUri: photoDataUri,
\* isCorrect: true, feedback: "Pose captured successfully."} : p)
WritePhoto(ps, pose, frame) ==
    MapPhotoById(ps, POSE_TYPES[pose].id,
                 [i \in DOMAIN ps |-> SpreadOver(ps[i], CapturedPhoto(frame))])

\* the 300 ms timeout: the photo of the analysed pose is written.
\* setPhotos is the setter of useLocalStorage that runAiGuidance closed over: it
\* applies the update to the photos of that render (prevPhotos).
FlashTimeout(i) ==
    LET t == timers[i]
        rest == RemoveAt(timers, i)
        confirm == [t EXCEPT !.kind = "confirm"] IN
    /\ t.kind = "flash"
    /\ IF mounted
       THEN Render("POSE_CONFIRMED", currentPoseIndex,
                   WritePhoto(t.prevPhotos, t.pose, t.frame),
                   poseCorrectness, "captured", backendDetectedLandmarks,
                   isBackendProcessing, Append(rest, confirm), confirm)
       ELSE NoRender(Append(rest, confirm), confirm)
    /\ Utter("Got it!", "POSE_CONFIRMED", currentPoseIndex)
    /\ lastEvent' = "flash_timeout"
    /\ UNCHANGED << profile, flashTimeoutRef, inflight, setupPending, modelLoadPending,
                    mounted >>

\* mutant: the session ends after the first confirmed pose
MorePosesRemain_Never(idx) == FALSE

\* mutant: the last pose is skipped
MorePosesRemain_OffByOne(idx) == idx < NumPoses - 2

\* mutant: the index advances past the last pose
MorePosesRemain_Inclusive(idx) == idx <= NumPoses - 1

\* currentPoseIndex < POSE_TYPES.length - 1, on the index runAiGuidance closed over
MorePosesRemain(idx) == idx < NumPoses - 1

\* the PHOTO_CONFIRMATION_DELAY_MS timeout: next pose, or all poses captured
ConfirmTimeout(i) ==
    LET t == timers[i]
        rest == RemoveAt(timers, i) IN
    /\ t.kind = "confirm"
    /\ IF ~mounted
       THEN NoRender(rest, phaseTransitionTimeoutRef)
       ELSE IF MorePosesRemain(t.pose)
       THEN Render("INITIALIZING_POSE", currentPoseIndex + 1, photos, poseCorrectness,
                   aiFeedbackText, backendDetectedLandmarks, isBackendProcessing,
                   rest, phaseTransitionTimeoutRef)
       ELSE Render("ALL_POSES_CAPTURED", currentPoseIndex, photos, poseCorrectness,
                   "All poses captured! You can now view your analysis.",
                   backendDetectedLandmarks, isBackendProcessing,
                   rest, phaseTransitionTimeoutRef)
    /\ IF MorePosesRemain(t.pose)
       THEN Utter(utterance, "INITIALIZING_POSE", currentPoseIndex + 1)
       ELSE Utter("All poses captured! Fantastic work.", "ALL_POSES_CAPTURED",
                  currentPoseIndex)
    /\ lastEvent' = "confirm_timeout"
    /\ UNCHANGED << profile, flashTimeoutRef, inflight, setupPending, modelLoadPending,
                    mounted >>

\* the NEXT_POSE_DELAY_MS timeout of the INITIALIZING_POSE effect
PrepTimeout(i) ==
    LET t == timers[i]
        rest == RemoveAt(timers, i) IN
    /\ t.kind = "prep"
    /\ IF mounted
       THEN Render("GUIDING", currentPoseIndex, photos, poseCorrectness,
                   aiFeedbackText, backendDetectedLandmarks, isBackendProcessing,
                   rest, phaseTransitionTimeoutRef)
       ELSE NoRender(rest, phaseTransitionTimeoutRef)
    /\ UNCHANGED media
    /\ lastEvent' = "prep_timeout"
    /\ UNCHANGED << profile, flashTimeoutRef, inflight, setupPending, modelLoadPending,
                    mounted >>

\* handleStartCapture: canStart and isPaused
canStart ==
    /\ capturePhase \in {"READY_TO_START", "IDLE", "MODEL_LOAD_ERROR"}
    /\ hasCameraPermission = "true"
    /\ profile
    /\ clientDetector

\* mutant: a completed session counts as a paused one
isPaused_AlsoWhenComplete ==
    /\ capturePhase \in {"READY_TO_START", "ALL_POSES_CAPTURED"}
    /\ \/ \E p \in Poses : photos[p].dataUri # 0 /\ photos[p].isCorrect = "false"
       \/ currentPoseIndex > 0

\* handleStartCapture: isPaused
isPaused ==
    /\ capturePhase = "READY_TO_START"
    /\ \/ \E p \in Poses : photos[p].dataUri # 0 /\ photos[p].isCorrect = "false"
       \/ currentPoseIndex > 0

\* mutant: every start begins the session anew
StartResetsSession_Always == TRUE

\* mutant: the negation of isPaused is lost, a resume starts over
StartResetsSession_OnResume == capturePhase = "IDLE" \/ isPaused

\* handleStartCapture: the session is begun from the first pose with empty photos
StartResetsSession == capturePhase = "IDLE" \/ ~isPaused

\* handleStartCapture
handleStartCapture ==
    /\ IF capturePhase = "MODEL_LOAD_ERROR"
       THEN /\ RestartSetup
            /\ lastEvent' = "retry_setup"
       ELSE /\ IF canStart \/ isPaused
               THEN /\ Render("INITIALIZING_POSE",
                              IF StartResetsSession THEN 0 ELSE currentPoseIndex,
                              IF StartResetsSession THEN initialPhotosState ELSE photos,
                              poseCorrectness, aiFeedbackText, backendDetectedLandmarks,
                              isBackendProcessing, timers, phaseTransitionTimeoutRef)
                    /\ Utter(utterance, "INITIALIZING_POSE",
                             IF StartResetsSession THEN 0 ELSE currentPoseIndex)
                    /\ lastEvent' = IF StartResetsSession THEN "start" ELSE "resume"
               ELSE IF capturePhase \in {"GUIDING", "ANALYZING"} /\ guidanceIntervalRef
               THEN /\ Render("READY_TO_START", currentPoseIndex, photos, poseCorrectness,
                              "Capture paused. Press Start to resume.",
                              backendDetectedLandmarks, isBackendProcessing, timers,
                              phaseTransitionTimeoutRef)
                    /\ Utter("Capture paused.", "READY_TO_START", currentPoseIndex)
                    /\ lastEvent' = "pause"
               ELSE /\ lastEvent' = "click_ignored"
                    /\ UNCHANGED << reactState, refs, timers, media >>
            /\ UNCHANGED << profile, flashTimeoutRef, inflight, setupPending,
                            modelLoadPending, mounted >>

\* a click on the Start / Pause / Resume button
StartCapture ==
    /\ mounted
    /\ ActionButtonEnabled
    /\ handleStartCapture

\* mutant: only isCorrect is reset, the image and the feedback stay
ResetPhoto_KeepsImage(ps, idx) == [ps EXCEPT ![idx].isCorrect = "null"]

\* mutant: the first entry of initialPhotosState is taken whatever the id
FindInitialPhoto_FirstEntry(id) == initialPhotosState[0]

\* initialPhotosState.find(ip => ip.id === id)
FindInitialPhoto(id) ==
    initialPhotosState[CHOOSE i \in Poses :
        /\ initialPhotosState[i].id = id
        /\ \A j \in Poses : initialPhotosState[j].id = id => i <= j]

\* handleRetryCurrentPose: the photo of the current pose becomes its entry of
\* initialPhotosState, the others stay
ResetPhoto(ps, idx) ==
    MapPhotoById(ps, POSE_TYPES[idx].id,
                 [i \in DOMAIN ps |-> FindInitialPhoto(POSE_TYPES[idx].id)])

\* mutant: the retry goes on sampling at once
RetryPhase_StraightToGuiding == "GUIDING"

\* handleRetryCurrentPose: the phase it sets
RetryPhase == "INITIALIZING_POSE"

\* handleRetryCurrentPose, from a click on the Retry Pose button
RetryCurrentPose ==
    /\ mounted
    /\ RetryPoseButtonEnabled
    /\ IF ~HasPoseInfo(currentPoseIndex)
       THEN UNCHANGED << reactState, refs, timers, media >>
       ELSE /\ Render(RetryPhase, currentPoseIndex,
                      ResetPhoto(photos, currentPoseIndex), poseCorrectness,
                      aiFeedbackText, backendDetectedLandmarks, FALSE, timers,
                      phaseTransitionTimeoutRef)
            /\ Utter(utterance, RetryPhase, currentPoseIndex)
    /\ lastEvent' = IF lastEvent \in {"retry_pose", "retry_pose_again"}
                    THEN "retry_pose_again" ELSE "retry_pose"
    /\ UNCHANGED << profile, flashTimeoutRef, inflight, setupPending, modelLoadPending,
                    mounted >>

----------------------------------------------------------------------------

Next ==
    \/ SetupEffect
    \/ \E ok \in BOOLEAN : SetupResolve(ok)
    \/ \E ok \in BOOLEAN : LoadModelResolve(ok)
    \/ RetrySetup
    \/ StartCapture
    \/ RetryCurrentPose
    \/ GuidanceTick
    \/ \E i \in 1 .. Len(inflight), output \in PromptOutputs : PromptResolve(i, output)
    \/ \E i \in 1 .. Len(inflight), error \in PromptErrors : PromptReject(i, error)
    \/ \E i \in 1 .. Len(inflight) : BackoffElapsed(i)
    \/ \E i \in 1 .. Len(inflight) : AnalysisSettles(i)
    \/ \E i \in 1 .. Len(timers) : CaptureTimeout(i)
    \/ \E i \in 1 .. Len(timers) : FlashTimeout(i)
    \/ \E i \in 1 .. Len(timers) : ConfirmTimeout(i)
    \/ \E i \in 1 .. Len(timers) : PrepTimeout(i)
    \/ Unmount

Spec == Init /\ [][Next]_vars

\* runAiGuidance called while an earlier call of aiPoseGuidance has not settled
\* (the interval is cleared then, so the component itself never does this)
SecondTick ==
    /\ mounted
    /\ Len(inflight) > 0
    /\ \E frame \in Frames, hasCtx \in BOOLEAN : runAiGuidance(frame, hasCtx)
    /\ UNCHANGED << profile, setupPending, modelLoadPending, mounted, media >>

NextSecondTick == Next \/ SecondTick

SpecSecondTick == Init /\ [][NextSecondTick]_vars

\* handleStartCapture called while its button is not there or is disabled
StartWithoutButton ==
    /\ mounted
    /\ ~ActionButtonEnabled
    /\ handleStartCapture

\* runAiGuidance called while the sampling interval is not set
TickWithoutInterval ==
    /\ mounted
    /\ ~guidanceIntervalRef
    /\ \E frame \in Frames, hasCtx \in BOOLEAN : runAiGuidance(frame, hasCtx)
    /\ UNCHANGED << profile, setupPending, modelLoadPending, mounted, media >>

NextDirectCalls == Next \/ StartWithoutButton \/ TickWithoutInterval

\* the component with its handlers also called directly, as a test harness does
SpecDirectCalls == Init /\ [][NextDirectCalls]_vars

\* a timeout that was set and not cleared runs its callback: the event loop
\* takes the NEXT_POSE_DELAY_MS timeout up once its delay is over
PrepTimeoutFires == \E i \in 1 .. Len(timers) : PrepTimeout(i)

SpecTimeoutsRun == Init /\ [][Next]_vars /\ WF_vars(PrepTimeoutFires)

\* a pending timeout of the capture loop runs its callback
TimeoutRuns ==
    \E i \in 1 .. Len(timers) :
        CaptureTimeout(i) \/ FlashTimeout(i) \/ ConfirmTimeout(i) \/ PrepTimeout(i)

\* the guidance interval fires and runAiGuidance gets a frame to send
TickSendsFrame == GuidanceTick /\ lastEvent' = "tick"

\* a pending call of aiPoseGuidance goes on: prompt settles, a backoff
\* elapses, or the settled flow is taken up by runAiGuidance
CallGoesOn ==
    \E i \in 1 .. Len(inflight) :
        \/ \E output \in PromptOutputs : PromptResolve(i, output)
        \/ \E error \in PromptErrors : PromptReject(i, error)
        \/ BackoffElapsed(i)
        \/ AnalysisSettles(i)

\* every pending call of aiPoseGuidance goes on until runAiGuidance has its answer
SpecCallsAnswered == Init /\ [][Next]_vars /\ WF_vars(CallGoesOn)

\* the service answers a prompt call with isCorrectPose = true
CorrectAnswer ==
    \E i \in 1 .. Len(inflight), output \in PromptOutputs \ { NullOutput } :
        output.isCorrectPose /\ PromptResolve(i, output)

\* prompt(input) of a pending call settles: fulfilled or rejected
PromptSettles ==
    \E i \in 1 .. Len(inflight) :
        \/ \E output \in PromptOutputs : PromptResolve(i, output)
        \/ \E error \in PromptErrors : PromptReject(i, error)

\* the backoff timeout of a pending call fires
BackoffFires == \E i \in 1 .. Len(inflight) : BackoffElapsed(i)

\* every prompt call settles and every backoff timeout fires
SpecCallsSettle ==
    Init /\ [][Next]_vars /\ WF_vars(PromptSettles) /\ WF_vars(BackoffFires)

\* timers and call completions are scheduled fairly, and the service, asked
\* again and again, at some time answers isCorrectPose = true
SpecFairLoop ==
    /\ Init /\ [][Next]_vars
    /\ WF_vars(TimeoutRuns)
    /\ WF_vars(TickSendsFrame)
    /\ WF_vars(CallGoesOn)
    /\ SF_vars(CorrectAnswer)

----------------------------------------------------------------------------
(* Properties *)

TickEvents == {"tick", "tick_no_frame", "tick_ignored"}

AllPhotosCorrect == \A p \in Poses : photos[p].isCorrect = "true"

CaptureLoopPhases ==
    { "INITIALIZING_POSE", "GUIDING", "ANALYZING", "CAPTURING_PHOTO", "PHOTO_FLASH",
      "POSE_CONFIRMED", "ALL_POSES_CAPTURED" }

\* C1: in every reachable state at most one aiPoseGuidance call is outstanding.
C1_AtMostOneAnalysisInFlight == Len(inflight) <= 1

C1_Witness == Len(inflight) = 1 /\ capturePhase = "ANALYZING" /\ currentPoseIndex > 0

\* C2: a tick that runs while an analysis call is unresolved starts no call and
\* leaves phase, pose index, correctness flag and every photo unchanged.
C2_TickWhilePendingIsNoOp ==
    [][ (lastEvent' \in TickEvents /\ Len(inflight) > 0)
          => /\ inflight' = inflight
             /\ UNCHANGED << capturePhase, currentPoseIndex, poseCorrectness, photos >> ]_vars

C2_Witness == lastEvent = "tick_ignored" /\ Len(inflight) = 1

\* C3: currentPoseIndex never decreases, and a retry of the current pose leaves
\* it exactly as it was.
C3_PoseIndexMonotone ==
    [][ /\ currentPoseIndex' >= currentPoseIndex
        /\ (lastEvent' \in {"retry_pose", "retry_pose_again"}
              => currentPoseIndex' = currentPoseIndex) ]_vars

C3_Witness == lastEvent = "resume" /\ currentPoseIndex > 0

\* C4: a photo's isCorrect becomes true only in the flash timeout of a capture
\* chain that a result with isCorrectPose = true started for that pose.
C4_CorrectOnlyFromCorrectResult ==
    [][ \A p \in Poses :
          (photos[p].isCorrect # "true" /\ photos'[p].isCorrect = "true")
            => /\ lastEvent' = "flash_timeout"
               /\ \E i \in 1 .. Len(timers) :
                     /\ timers[i].kind = "flash"
                     /\ timers[i].pose = p
                     /\ timers[i].isCorrectPose
                     /\ photos'[p].dataUri = timers[i].frame ]_vars

C4_Witness ==
    /\ lastEvent = "flash_timeout"
    /\ mounted
    /\ photos[currentPoseIndex].isCorrect = "true"
    /\ aiFeedbackText = "captured"

C6_IndexInRange ==
    /\ currentPoseIndex \in Poses
    /\ [][ /\ currentPoseIndex' \in Poses
           /\ (capturePhase = "POSE_CONFIRMED" /\ currentPoseIndex = NumPoses - 1)
                => /\ capturePhase' \in {"POSE_CONFIRMED", "ALL_POSES_CAPTURED"}
                   /\ currentPoseIndex' = currentPoseIndex ]_vars

C6_Witness ==
    /\ capturePhase = "ALL_POSES_CAPTURED"
    /\ currentPoseIndex = NumPoses - 1
    /\ lastEvent = "confirm_timeout"

C9_RetryIdempotent ==
    [][ lastEvent' = "retry_pose_again" => UNCHANGED << reactState, refs, pending >> ]_vars

C9_Witness == lastEvent = "retry_pose_again" /\ timers = << PrepTimer >>

\* C10: once every pose of the session is confirmed the phase becomes
\* ALL_POSES_CAPTURED after the confirmation dwell and stays so; the sampling
\* interval is cleared, no call is outstanding, and no later step is a tick or
\* starts a call.
C10_CompleteStopsSampling ==
    [][ /\ (AllPhotosCorrect /\ capturePhase \in CaptureLoopPhases)
              => /\ ~guidanceIntervalRef /\ Len(inflight) = 0
                 /\ capturePhase' \in {capturePhase, "ALL_POSES_CAPTURED"}
                 /\ lastEvent' \notin TickEvents
        /\ capturePhase = "ALL_POSES_CAPTURED"
              => /\ capturePhase' = "ALL_POSES_CAPTURED"
                 /\ ~guidanceIntervalRef' /\ Len(inflight') = 0 ]_vars

C10_Witness ==
    /\ capturePhase = "ALL_POSES_CAPTURED"
    /\ lastEvent = "unmount"

----------------------------------------------------------------------------
(* The retry policy of aiPoseGuidanceFlow *)

\* the flows of the calls that have not yet been answered
PendingFlows == { inflight[i].flow : i \in 1 .. Len(inflight) }

\* the transient signal, as the service gives it
Is503(error) == error.name = "GoogleGenerativeAIError" /\ error.status = 503

\* C11: a flow whose prompt failed with the transient error exactly twice and
\* was then fulfilled has returned that output, after exactly 3 prompt calls,
\* and it waited strictly longer before the third call than before the second
C11_TwoTransientThenSuccess ==
    \A f \in PendingFlows :
        (f.status = "returned" /\ Len(f.failures) = 2) =>
            /\ \A k \in 1 .. 2 : Is503(f.failures[k])
            /\ f.calls = 3
            /\ f.output.isCorrectPose = f.raw.isCorrectPose
            /\ f.output.detectedLandmarks \in {f.raw.detectedLandmarks, "empty"}
            /\ Len(f.delays) = 2
            /\ f.delays[2] > f.delays[1]

C11_Witness ==
    \E f \in PendingFlows :
        /\ f.status = "returned" /\ Len(f.failures) = 2
        /\ f.output.isCorrectPose /\ f.raw.detectedLandmarks = "some"

\* C12: a flow whose prompt failed with anything but the transient error has
\* thrown that very error at once: no prompt call after the failed one and no
\* backoff wait for it; when it was the first call, that is the only call
C12_NonTransientFailsAtOnce ==
    \A f \in PendingFlows :
        (Len(f.failures) > 0 /\ ~Is503(f.failures[Len(f.failures)])) =>
            /\ f.status = "thrown"
            /\ f.thrown = f.failures[Len(f.failures)]
            /\ f.calls = Len(f.failures)
            /\ Len(f.delays) = Len(f.failures) - 1

C12_Witness ==
    \E f \in PendingFlows :
        /\ f.status = "thrown" /\ f.calls = 1
        /\ f.failures = << f.thrown >> /\ f.thrown.status = 500 /\ f.delays = << >>

\* C13: a flow makes at most 3 prompt calls, and when all three failed with the
\* transient error it throws the terminal error, whose message carries the
\* message of the third failure
C13_ExhaustionAfterThreeCalls ==
    \A f \in PendingFlows :
        /\ f.calls <= 3
        /\ (f.status = "thrown" /\ Len(f.failures) = 3 /\ Is503(f.failures[3])) =>
               /\ f.thrown.name = "Error"
               /\ f.thrown.message.text = "Failed to get AI pose guidance after 3 retries: "
               /\ f.thrown.message.detail = f.failures[3].message.detail

C13_Witness ==
    \E f \in PendingFlows :
        /\ f.status = "thrown" /\ f.calls = 3 /\ Len(f.failures) = 3
        /\ \A k \in 1 .. 3 : Is503(f.failures[k])
        /\ f.failures[3].message.detail # f.failures[2].message.detail

\* C14: the backoff delay waited for after the k-th transient failure of a
\* flow is 2^k seconds
C14_BackoffIsTwoToTheK ==
    \A f \in PendingFlows :
        \A k \in 1 .. Len(f.delays) :
            /\ Is503(f.failures[k])
            /\ f.delays[k] = (2 ^ k) * 1000

C14_Witness ==
    \E f \in PendingFlows : f.status = "waiting" /\ Len(f.delays) = 3

----------------------------------------------------------------------------
(* What the component does with the answer of an analysis call *)

\* the answered call is the only pending one, its flow has thrown
AnswerIsFailure ==
    /\ Len(inflight) = 1 /\ inflight' = << >>
    /\ inflight[1].flow.status = "thrown"

\* the answered call is the only pending one, its flow returned this verdict
AnswerIsResult(isCorrectPose) ==
    /\ Len(inflight) = 1 /\ inflight' = << >>
    /\ inflight[1].flow.status = "returned"
    /\ inflight[1].flow.output.isCorrectPose = isCorrectPose

ErrorOrTerminalPhases ==
    { "CAMERA_ERROR", "PROFILE_INCOMPLETE", "MODEL_LOAD_ERROR", "ALL_POSES_CAPTURED",
      "IDLE" }

\* C15: when the analysis call is answered with a failure (the terminal error
\* of the exhausted retries, or a non-transient error), the pose index and all
\* photos stay as they are and no error or terminal phase is entered; the
\* mounted component goes to GUIDING with the flag NEUTRAL and no landmarks
C15_FailureIsAbsorbed ==
    [][ AnswerIsFailure =>
          /\ currentPoseIndex' = currentPoseIndex
          /\ photos' = photos
          /\ capturePhase' \notin ErrorOrTerminalPhases
          /\ mounted => /\ capturePhase = "ANALYZING"
                        /\ capturePhase' = "GUIDING"
                        /\ poseCorrectness' = "NEUTRAL"
                        /\ backendDetectedLandmarks' = "null"
                        /\ ~isBackendProcessing' ]_vars

C15_Witness ==
    /\ lastEvent = "analysis_failed" /\ mounted
    /\ capturePhase = "GUIDING" /\ poseCorrectness = "NEUTRAL"
    /\ currentPoseIndex = 1 /\ photos[0].isCorrect = "true"

\* C16: when the analysis call is answered with isCorrectPose = false, the
\* mounted component goes to GUIDING with the flag ADJUSTMENT_NEEDED, the photo
\* of the current pose stays empty, the pose index stays, and the sampling
\* interval is running again
C16_IncorrectResultAsksForAdjustment ==
    [][ (AnswerIsResult(FALSE) /\ mounted) =>
          /\ capturePhase = "ANALYZING"
          /\ capturePhase' = "GUIDING"
          /\ poseCorrectness' = "ADJUSTMENT_NEEDED"
          /\ currentPoseIndex' = currentPoseIndex
          /\ photos' = photos
          /\ photos'[currentPoseIndex'].isCorrect = "null"
          /\ photos'[currentPoseIndex'].dataUri = 0
          /\ guidanceIntervalRef'
          /\ timers' = << >> ]_vars

C16_Witness ==
    /\ lastEvent = "analysis_incorrect" /\ mounted
    /\ capturePhase = "GUIDING" /\ poseCorrectness = "ADJUSTMENT_NEEDED"
    /\ guidanceIntervalRef /\ currentPoseIndex = 2

\* C17: when the analysis call is answered with isCorrectPose = true, the
\* mounted component goes to CAPTURING_PHOTO with the flag CORRECT; from there
\* the phase changes only to PHOTO_FLASH and then to POSE_CONFIRMED; and
\* whenever the phase is POSE_CONFIRMED the photo of the current pose is
\* correct, has the fixed confirmation text, and its image is the frame that
\* was sent for analysis
C17_CorrectResultIsCaptured ==
    [][ /\ (AnswerIsResult(TRUE) /\ mounted) =>
              /\ capturePhase' = "CAPTURING_PHOTO"
              /\ poseCorrectness' = "CORRECT"
              /\ \E i \in 1 .. Len(timers') :
                    /\ timers'[i].kind = "capture"
                    /\ timers'[i].frame = inflight[1].frame
        /\ (capturePhase = "CAPTURING_PHOTO" /\ capturePhase' # capturePhase) =>
              capturePhase' = "PHOTO_FLASH"
        /\ (capturePhase = "PHOTO_FLASH" /\ capturePhase' # capturePhase) =>
              /\ capturePhase' = "POSE_CONFIRMED"
              /\ \E i \in 1 .. Len(timers) :
                    /\ timers[i].kind = "flash"
                    /\ photos'[currentPoseIndex'].dataUri = timers[i].frame
        /\ capturePhase' = "POSE_CONFIRMED" =>
              /\ photos'[currentPoseIndex'].isCorrect = "true"
              /\ photos'[currentPoseIndex'].dataUri \in Frames
              /\ photos'[currentPoseIndex'].feedback = "Pose captured successfully."
              /\ \A i \in 1 .. Len(timers') :
                    photos'[currentPoseIndex'].dataUri = timers'[i].frame ]_vars

C17_Witness ==
    /\ capturePhase = "POSE_CONFIRMED" /\ mounted /\ lastEvent = "flash_timeout"
    /\ currentPoseIndex = 1
    /\ photos[1].dataUri = 2 /\ photos[0].dataUri = 1

\* C18: the confirmation timeout takes the mounted component from
\* POSE_CONFIRMED to INITIALIZING_POSE with the pose index incremented by 1
\* when the confirmed pose is not the last one, and to ALL_POSES_CAPTURED with
\* the index unchanged when it is; POSE_CONFIRMED is left in no other way
C18_ConfirmedAdvancesOrCompletes ==
    [][ /\ (lastEvent' = "confirm_timeout" /\ mounted) =>
              /\ capturePhase = "POSE_CONFIRMED"
              /\ IF currentPoseIndex < NumPoses - 1
                 THEN /\ capturePhase' = "INITIALIZING_POSE"
                      /\ currentPoseIndex' = currentPoseIndex + 1
                 ELSE /\ capturePhase' = "ALL_POSES_CAPTURED"
                      /\ currentPoseIndex' = currentPoseIndex
        /\ (capturePhase = "POSE_CONFIRMED" /\ capturePhase' # capturePhase) =>
              lastEvent' = "confirm_timeout" ]_vars

C18_Witness ==
    /\ lastEvent = "confirm_timeout" /\ mounted
    /\ capturePhase = "ALL_POSES_CAPTURED" /\ currentPoseIndex = NumPoses - 1

----------------------------------------------------------------------------
(* The prerequisites of a session *)

LabeledErrorPhases == { "PROFILE_INCOMPLETE", "CAMERA_ERROR", "MODEL_LOAD_ERROR" }

\* C19 (the part about READY): the phase is READY_TO_START only with a complete
\* profile, camera access granted and a loaded detector
C19_ReadyOnlyWithPrerequisites ==
    capturePhase = "READY_TO_START" =>
        /\ profile
        /\ hasCameraPermission = "true"
        /\ clientDetector
        /\ ~isClientDetectorLoading

\* C19: READY_TO_START is entered only with a complete profile, camera access
\* and a loaded detector, and a failed prerequisite leaves the component in
\* its labeled phase: PROFILE_INCOMPLETE after the profile check failed,
\* CAMERA_ERROR after the camera or backend setup failed, MODEL_LOAD_ERROR
\* after the detector failed to load
C19_PrerequisiteFailureIsLabeled ==
    /\ C19_ReadyOnlyWithPrerequisites
    /\ (lastEvent = "setup_started" /\ ~profile) => capturePhase = "PROFILE_INCOMPLETE"
    /\ lastEvent = "camera_failed" => capturePhase = "CAMERA_ERROR"
    /\ lastEvent = "model_load_failed" => capturePhase = "MODEL_LOAD_ERROR"

\* the detector failed to load and the component is loading it again
C19_Witness ==
    /\ lastEvent = "model_load_failed" /\ mounted
    /\ capturePhase = "TF_MODEL_LOADING"

\* C20: after a failed prerequisite the component is in its labeled error
\* phase with no prerequisite check in progress, and while it is in a labeled
\* error phase neither the phase changes nor a prerequisite check is started
\* except by the retry
C20_NoAutomaticRecheck ==
    [][ /\ lastEvent' \in {"camera_failed", "model_load_failed"} =>
              /\ capturePhase' \in LabeledErrorPhases
              /\ ~setupPending' /\ ~modelLoadPending'
        /\ (capturePhase \in LabeledErrorPhases /\ lastEvent' # "retry_setup") =>
              /\ capturePhase' = capturePhase
              /\ setupPending' = setupPending
              /\ modelLoadPending' = modelLoadPending ]_vars

\* C20 without the detector: after the profile check or the camera setup
\* failed nothing is checked again except by the retry
C20_NoAutomaticRecheckOfProfileAndCamera ==
    [][ /\ lastEvent' = "camera_failed" =>
              /\ capturePhase' = "CAMERA_ERROR"
              /\ ~setupPending' /\ ~modelLoadPending'
        /\ (capturePhase \in LabeledErrorPhases /\ lastEvent' # "retry_setup") =>
              /\ capturePhase' = capturePhase
              /\ setupPending' = setupPending
              /\ modelLoadPending' = modelLoadPending ]_vars

\* the next load of the detector is in progress right after a failed one
C20_Witness ==
    /\ lastEvent = "model_load_failed" /\ mounted
    /\ modelLoadPending /\ isClientDetectorLoading
    /\ hasCameraPermission = "true" /\ ~clientDetector

----------------------------------------------------------------------------
(* Terminal phase, sampling timer, teardown, pause *)

\* C21: once the phase is ALL_POSES_CAPTURED no step changes the phase, the
\* pose index or a photo: not a call of handleStartCapture, not a call of
\* runAiGuidance, not a timeout and not the answer of an analysis call
C21_CompleteIsTerminal ==
    [][ capturePhase = "ALL_POSES_CAPTURED" =>
          /\ capturePhase' = "ALL_POSES_CAPTURED"
          /\ currentPoseIndex' = currentPoseIndex
          /\ photos' = photos ]_vars

C21_Witness ==
    /\ capturePhase = "ALL_POSES_CAPTURED" /\ mounted
    /\ lastEvent = "click_ignored"
    /\ AllPhotosCorrect

\* C22: whenever the sampling interval is set, the component is mounted, the
\* phase is GUIDING and no analysis call is unanswered; and a step that leaves
\* GUIDING (a tick that starts a call, the pause, the retry of the pose) or
\* unmounts the component leaves no interval set
C22_IntervalOnlyWhileGuiding ==
    [][ /\ guidanceIntervalRef' =>
              /\ mounted'
              /\ capturePhase' = "GUIDING"
              /\ Len(inflight') = 0
              /\ ~isBackendProcessing'
        /\ (capturePhase = "GUIDING" /\ (capturePhase' # "GUIDING" \/ ~mounted')) =>
              ~guidanceIntervalRef' ]_vars

C22_Witness ==
    /\ lastEvent = "pause" /\ mounted
    /\ capturePhase = "READY_TO_START"
    /\ ~guidanceIntervalRef
    /\ currentPoseIndex = 1

\* C23 (the part that holds): the unmount leaves no interval and no timeout
\* pending, and after it no step changes the phase, the pose index or a photo
C23_TeardownFreezesSession ==
    [][ /\ ~mounted' => ~guidanceIntervalRef'
        /\ (mounted /\ ~mounted') => (timers' = << >> /\ utterance' = "none")
        /\ ~mounted =>
              /\ capturePhase' = capturePhase
              /\ currentPoseIndex' = currentPoseIndex
              /\ photos' = photos ]_vars

\* C23: after the unmount the camera stream is not live, no interval and no
\* timeout is pending, and no later step speaks, sets a timeout, changes the
\* phase or writes a photo, also when an analysis call was unanswered
C23_TeardownIsComplete ==
    [][ /\ ~mounted' =>
              /\ mediaStream' # "live"
              /\ ~guidanceIntervalRef'
        /\ (mounted /\ ~mounted') => timers' = << >>
        /\ ~mounted =>
              /\ utterance' \in {utterance, "none"}
              /\ Len(timers') <= Len(timers)
              /\ capturePhase' = capturePhase
              /\ photos' = photos ]_vars

\* after the unmount the answer of the analysis call was spoken and set the
\* capture timeout, and the camera stream is still live
C23_Witness ==
    /\ ~mounted /\ lastEvent = "analysis_correct"
    /\ utterance = "Perfect! Capturing"
    /\ Len(timers) = 1 /\ timers[1].kind = "capture"
    /\ mediaStream = "live"

\* handleStartCapture ran in this step
StartHandlerRan == lastEvent' \in {"start", "resume", "pause", "click_ignored"}

\* the session was paused and nothing happened since
Paused ==
    /\ capturePhase = "READY_TO_START"
    /\ aiFeedbackText = "Capture paused. Press Start to resume."

\* every photo that is confirmed stays as it is
ConfirmedPhotosKept ==
    \A p \in Poses : photos[p].isCorrect = "true" => photos'[p] = photos[p]

C26_ReturnedOutputHasLandmarks ==
    \A f \in PendingFlows :
        f.status = "returned" =>
            /\ f.output.detectedLandmarks \in {"empty", "some"}
            /\ f.raw.detectedLandmarks = "undefined" => f.output.detectedLandmarks = "empty"
            /\ f.raw.detectedLandmarks # "undefined" =>
                   f.output.detectedLandmarks = f.raw.detectedLandmarks
            /\ f.output.isCorrectPose = f.raw.isCorrectPose

C26_Witness ==
    \E f \in PendingFlows :
        /\ f.status = "returned" /\ f.raw.detectedLandmarks = "undefined"
        /\ f.output.detectedLandmarks = "empty" /\ f.output.isCorrectPose

C28_OneRecordPerPoseInOrder ==
    /\ DOMAIN photos = Poses
    /\ \A p \in Poses : /\ photos[p].id = POSE_TYPES[p].id
                        /\ photos[p].name = POSE_TYPES[p].name
    /\ Len(capturedPhotosItem) = NumPoses
    /\ \A p \in Poses : capturedPhotosItem[p + 1].id = << "string", POSE_TYPES[p].id >>

C28_Witness ==
    /\ mounted
    /\ lastEvent = "retry_pose"
    /\ currentPoseIndex > 0
    /\ DOMAIN photos = Poses
    /\ photos[0].dataUri \in Frames
    /\ photos[0].id = "front_t_pose"
    /\ photos[currentPoseIndex].id = POSE_TYPES[currentPoseIndex].id
    /\ photos[currentPoseIndex].dataUri = 0

\* C29: a task that changes the phase of the capture loop takes one of these
\* edges: GUIDING to ANALYZING, to READY_TO_START (pause) or to INITIALIZING_POSE
\* (retry); ANALYZING to GUIDING, to CAPTURING_PHOTO, to READY_TO_START or to
\* INITIALIZING_POSE; CAPTURING_PHOTO to PHOTO_FLASH and PHOTO_FLASH to
\* POSE_CONFIRMED; POSE_CONFIRMED to INITIALIZING_POSE or to ALL_POSES_CAPTURED
C29_PhaseEdges ==
    [][ capturePhase' # capturePhase =>
          /\ capturePhase = "GUIDING" =>
                capturePhase' \in {"ANALYZING", "READY_TO_START", "INITIALIZING_POSE"}
          /\ capturePhase = "ANALYZING" =>
                capturePhase' \in {"GUIDING", "CAPTURING_PHOTO", "READY_TO_START",
                                   "INITIALIZING_POSE"}
          /\ capturePhase = "CAPTURING_PHOTO" => capturePhase' = "PHOTO_FLASH"
          /\ capturePhase = "PHOTO_FLASH" => capturePhase' = "POSE_CONFIRMED"
          /\ capturePhase = "POSE_CONFIRMED" =>
                capturePhase' \in {"INITIALIZING_POSE", "ALL_POSES_CAPTURED"} ]_vars

C29_Witness ==
    /\ mounted
    /\ lastEvent = "analysis_incorrect"
    /\ capturePhase = "GUIDING"
    /\ currentPoseIndex > 0
    /\ photos[0].isCorrect = "true"

\* C30: a task that enters INITIALIZING_POSE leaves the pose's correctness
\* NEUTRAL and the landmarks of the overlay null; GUIDING is entered only from
\* INITIALIZING_POSE or from ANALYZING; and while the component stays mounted,
\* INITIALIZING_POSE is followed by GUIDING
C30_PreparationLeadsToGuiding ==
    /\ [][ /\ (mounted /\ capturePhase # "INITIALIZING_POSE"
                 /\ capturePhase' = "INITIALIZING_POSE")
              => /\ poseCorrectness' = "NEUTRAL"
                 /\ backendDetectedLandmarks' = "null"
                 /\ \E i \in 1 .. Len(timers') : timers'[i].kind = "prep"
           /\ (capturePhase # "GUIDING" /\ capturePhase' = "GUIDING")
              => capturePhase \in {"INITIALIZING_POSE", "ANALYZING"} ]_vars
    /\ (mounted /\ capturePhase = "INITIALIZING_POSE")
          ~> (capturePhase = "GUIDING" \/ ~mounted)

C30_Witness ==
    /\ mounted
    /\ lastEvent = "prep_timeout"
    /\ capturePhase = "GUIDING"
    /\ currentPoseIndex > 0
    /\ poseCorrectness = "NEUTRAL"
    /\ backendDetectedLandmarks = "null"

\* a correct result for pose p has arrived while p is the current pose
CorrectResultFor(p) ==
    lastEvent = "analysis_correct" /\ currentPoseIndex = p /\ mounted

\* the session is in its capture loop
InCaptureLoop ==
    capturePhase \in {"INITIALIZING_POSE", "GUIDING", "ANALYZING", "CAPTURING_PHOTO",
                      "PHOTO_FLASH", "POSE_CONFIRMED"}

RetryEvents == {"retry_pose", "retry_pose_again"}

\* C31: if the component stays mounted and the user never pauses, then (1) a
\* session in which every pose gets a correct result reaches
\* ALL_POSES_CAPTURED, and (2) once the user no longer retries, a session in
\* its capture loop reaches ALL_POSES_CAPTURED, whatever incorrect results and
\* failures come in between
C31_ForwardProgress ==
    ([]mounted /\ [](lastEvent # "pause")) =>
        /\ (\A p \in Poses : <>CorrectResultFor(p))
              => <>(capturePhase = "ALL_POSES_CAPTURED")
        /\ (<>[](lastEvent \notin RetryEvents) /\ <>InCaptureLoop)
              => <>(capturePhase = "ALL_POSES_CAPTURED")

C31_Witness ==
    /\ mounted
    /\ capturePhase = "ALL_POSES_CAPTURED"
    /\ lastEvent = "confirm_timeout"
    /\ capturedCount = NumPoses
    /\ photos[NumPoses - 1].dataUri = MaxFrame

\* C32: a Retry Setup is made from an error screen and starts the setup anew:
\* camera permission unknown, no detector, nothing loading, the setup effect
\* run again from IDLE (profile check, then the camera request). After it the
\* permission becomes granted only by a camera request that succeeded, a
\* detector is loaded only with the permission granted, and READY_TO_START is
\* entered only by a detector load that succeeded
C32_RetrySetupStartsFromScratch ==
    [][ /\ (mounted /\ lastEvent' = "retry_setup") =>
              /\ capturePhase \in LabeledErrorPhases
              /\ hasCameraPermission' = "null"
              /\ ~clientDetector' /\ ~isClientDetectorLoading'
              /\ ~modelLoadPending'
              /\ capturePhase' = IF profile THEN "INITIALIZING_CAMERA_TF"
                                            ELSE "PROFILE_INCOMPLETE"
              /\ setupPending' = profile
        /\ (hasCameraPermission # "true" /\ hasCameraPermission' = "true") =>
              /\ lastEvent' = "camera_granted" /\ setupPending /\ profile
        /\ (~modelLoadPending /\ modelLoadPending') => hasCameraPermission' = "true"
        /\ (~clientDetector /\ clientDetector') =>
              /\ lastEvent' = "model_loaded" /\ modelLoadPending
        /\ (capturePhase # "READY_TO_START" /\ capturePhase' = "READY_TO_START"
              /\ lastEvent' # "pause") =>
              /\ lastEvent' = "model_loaded"
              /\ profile /\ hasCameraPermission = "true" /\ modelLoadPending ]_vars

C32_Witness ==
    /\ mounted
    /\ lastEvent = "retry_setup"
    /\ capturePhase = "INITIALIZING_CAMERA_TF"
    /\ hasCameraPermission = "null"
    /\ ~clientDetector
    /\ setupPending

\* C33: a call of handleStartCapture that starts or resumes capture from
\* READY_TO_START with currentPoseIndex = 0 begins a fresh session: the index
\* is 0 and every photo is its entry of initialPhotosState (dataUri, isCorrect
\* and feedback null), in the state and in the stored item, whatever the photos
\* were before
C33_StartFromFirstPoseIsFresh ==
    [][ (mounted /\ lastEvent' \in {"start", "resume"}
           /\ capturePhase = "READY_TO_START" /\ currentPoseIndex = 0) =>
          /\ lastEvent' = "start"
          /\ capturePhase' = "INITIALIZING_POSE"
          /\ currentPoseIndex' = 0
          /\ \A p \in Poses : /\ photos'[p].dataUri = 0
                              /\ photos'[p].isCorrect = "null"
                              /\ photos'[p].feedback = "null"
          /\ ReadItem(capturedPhotosItem') = initialPhotosState ]_vars

C33_Witness ==
    /\ mounted
    /\ lastEvent = "start"
    /\ capturePhase = "INITIALIZING_POSE"
    /\ currentPoseIndex = 0
    /\ photos = initialPhotosState
    /\ capturedPhotosItem = JSONstringify(initialPhotosState)

\* the flow has thrown the error of line 118, made after the retries ran out
ThrewTerminalError(f) ==
    /\ f.status = "thrown"
    /\ f.thrown.name = "Error"
    /\ f.thrown.message.text = "Failed to get AI pose guidance after 3 retries: "

C35_EveryWaitIsFollowedByACall ==
    \A f \in PendingFlows :
        /\ f.status = "waiting" => Len(f.delays) = f.calls
        /\ f.status # "waiting" => Len(f.delays) = f.calls - 1

\* C35 for the waits before the last attempt: the wait after the first and
\* after the second transient failure is followed by the next prompt call
C35_EarlyWaitsAreFollowedByACall ==
    \A f \in PendingFlows :
        /\ Len(f.delays) <= f.calls
        /\ (f.status # "waiting" /\ Len(f.delays) < maxRetries) =>
               Len(f.delays) = f.calls - 1

\* the third transient failure was waited for, and then the flow threw
C35_Witness ==
    \E f \in PendingFlows :
        /\ ThrewTerminalError(f)
        /\ f.calls = 3
        /\ f.delays = << 2000, 4000, 8000 >>

\* C36: a flow makes at most maxRetries prompt calls, and every flow that is
\* calling or waiting comes to an end, returned or thrown, whatever prompt
\* answers
C36_FlowTerminates ==
    /\ [](\A f \in PendingFlows : f.calls <= maxRetries /\ Len(f.failures) <= f.calls)
    /\ (\E i \in 1 .. Len(inflight) : ~FlowSettled(inflight[i].flow))
          ~> (\A i \in 1 .. Len(inflight) : FlowSettled(inflight[i].flow))

C36_Witness ==
    \E f \in PendingFlows :
        /\ FlowSettled(f)
        /\ f.status = "thrown"
        /\ f.calls = maxRetries
        /\ Len(f.failures) = maxRetries
        /\ ~mounted

\* C37: the flash timeout of a capture writes the record of the pose that was
\* analysed, which is the current pose at that time, with the frame that was
\* analysed, and leaves every other record as it was; a retry of the current
\* pose makes the record of the current pose empty and leaves every other
\* record as it was
C37_WritesOnlyTheCurrentPose ==
    [][ mounted =>
          /\ lastEvent' = "flash_timeout" =>
                \E i \in 1 .. Len(timers) :
                    /\ timers[i].kind = "flash"
                    /\ timers[i].pose = currentPoseIndex
                    /\ currentPoseIndex' = currentPoseIndex
                    /\ photos'[currentPoseIndex].dataUri = timers[i].frame
                    /\ photos'[currentPoseIndex].isCorrect = "true"
                    /\ \A p \in Poses \ {currentPoseIndex} : photos'[p] = photos[p]
          /\ lastEvent' \in RetryEvents =>
                /\ photos'[currentPoseIndex] = initialPhotosState[currentPoseIndex]
                /\ \A p \in Poses \ {currentPoseIndex} : photos'[p] = photos[p]
          /\ photos' # photos => lastEvent' \in {"flash_timeout", "start"} \cup RetryEvents
      ]_vars

C37_Witness ==
    /\ mounted
    /\ lastEvent = "flash_timeout"
    /\ currentPoseIndex = 1
    /\ photos[1].dataUri = 2
    /\ photos[0].dataUri = 1
    /\ photos[2] = initialPhotosState[2]
    /\ photos[3] = initialPhotosState[3]

\* C38: isBackendProcessing is true exactly when the phase is ANALYZING, and
\* in the mounted component exactly when a call of aiPoseGuidance is pending;
\* every way a tick ends (correct result, incorrect result, failure, no 2d
\* context) and a retry leave it false; and it does not stay true for ever
\* while the component is mounted
C38_ProcessingExactlyWhileAnalyzing ==
    /\ [](isBackendProcessing <=> capturePhase = "ANALYZING")
    /\ [](mounted => (isBackendProcessing <=> Len(inflight) = 1))
    /\ [][ (mounted /\ lastEvent' \in {"analysis_correct", "analysis_incorrect",
                                      "analysis_failed", "tick_no_frame",
                                      "retry_pose", "retry_pose_again"})
              => ~isBackendProcessing' ]_vars
    /\ isBackendProcessing ~> (~isBackendProcessing \/ ~mounted)

C38_Witness ==
    /\ mounted
    /\ lastEvent = "analysis_failed"
    /\ ~isBackendProcessing
    /\ capturePhase = "GUIDING"
    /\ Len(inflight) = 0
    /\ guidanceIntervalRef

\* C39: in every state with phase GUIDING or ANALYZING the stream acquired
\* during setup is the source of the video element and its tracks are running
C39_StreamAttachedWhileCapturing ==
    capturePhase \in {"GUIDING", "ANALYZING"} => (videoSrcObject /\ mediaStream = "live")

\* the part of C39 that the code does keep: once acquired, the stream is
\* stopped by no step, so its tracks are running in GUIDING and ANALYZING
C39_StreamIsNeverStopped ==
    /\ [](capturePhase \in {"GUIDING", "ANALYZING"} => mediaStream = "live")
    /\ [][mediaStream = "live" => mediaStream' = "live"]_vars

\* the loop sends frames while the video element has no source
C39_Witness ==
    /\ mounted
    /\ capturePhase = "ANALYZING"
    /\ lastEvent = "tick"
    /\ mediaStream = "live"
    /\ ~videoSrcObject

====
